---- MODULE Spec2Model ----
(***************************************************************************)
(* Model of the Atlas admin panel controller (static/js/atlas-admin.js).   *)
(*                                                                         *)
(* The script is single threaded: a handler runs from the event that       *)
(* starts it (page load, click, change, arrival of a response) up to its   *)
(* next await of a network call.  One action of the model is one such run. *)
(* A handler invocation is a task: tasks[i].pc is the await the invocation *)
(* is suspended at and tasks[i].trace the calls of fetch, confirm and      *)
(* alert it has made so far, in program order.  latest is, per tab, the    *)
(* outcome of the list fetch that was issued last.  ev is the event the    *)
(* last run was started by, with the invocation as the run left it.        *)
(* JavaScript objects are functions from the names of the fields that are  *)
(* present to their values; an optional value is <<>> (undefined) or <<v>>.*)
(*                                                                         *)
(* The controls of the panel are operated once init has shown the first    *)
(* tab: the page markup is not part of the script, and every button other  *)
(* than the tab selectors is created by a render routine.                  *)
(***************************************************************************)
EXTENDS Integers, Sequences, FiniteSets, TLC

\* ------------------------------------------------------------------ bounds
\* Handler invocations suspended at an await at the same time.
MaxPending == 2
\* Clicks and selections of the operator in one page load.
MaxClicks == 2
\* Clicks that repeat the click before them on the same button, while the
\* POST of that click is in flight.
MaxRepeats == 1
\* Length of the text typed into the owner field of the asset form.
MaxOwnerLen == 2

\* ------------------------------------------------------- JavaScript values
None == <<>>
Some(v) == <<v>>

\* obj.f
Get(obj, f) == IF f \in DOMAIN obj THEN Some(obj[f]) ELSE None

\* a string is falsy when it is empty, undefined is falsy
Truthy(m) == m # None /\ m[1] # ""

\* m || d
OrElse(m, d) == IF Truthy(m) THEN m[1] ELSE d

\* `${m}`
Tpl(m) == IF m = None THEN "undefined" ELSE m[1]

EmptyObj == <<>>

\* String.prototype.trim over a string held as a sequence of characters
Whitespace == {" ", "\t"}

RECURSIVE TrimStart(_)
TrimStart(s) ==
  IF s # <<>> /\ Head(s) \in Whitespace THEN TrimStart(Tail(s)) ELSE s

RECURSIVE TrimEnd(_)
TrimEnd(s) ==
  IF s # <<>> /\ s[Len(s)] \in Whitespace
  THEN TrimEnd(SubSeq(s, 1, Len(s) - 1)) ELSE s

trim(s) == TrimEnd(TrimStart(s))

\* Error objects and String(e)
Error(msg) == [name |-> "Error", message |-> msg]
TypeError(msg) == [name |-> "TypeError", message |-> msg]
SyntaxError(msg) == [name |-> "SyntaxError", message |-> msg]

ErrorToString(e) ==
  IF e.message = "" THEN e.name ELSE e.name \o ": " \o e.message

\* ---------------------------------------------------------------- network
NetErr == [kind |-> "neterr", status |-> 0, json |-> FALSE, body |-> EmptyObj]
Http(st, js, b) == [kind |-> "http", status |-> st, json |-> js, body |-> b]
NoResp == [kind |-> "none", status |-> 0, json |-> FALSE, body |-> EmptyObj]

\* Response.ok
ROk(r) == r.status >= 200 /\ r.status <= 299

\* api(path, opts): the value returned or the error thrown for a response
Returned(j) == [ok |-> TRUE, j |-> j, e |-> Error("")]
Thrown(e) == [ok |-> FALSE, j |-> EmptyObj, e |-> e]

api(r) ==
  IF r.kind = "neterr" THEN Thrown(TypeError("Failed to fetch"))
  ELSE LET j == IF r.json THEN r.body ELSE EmptyObj
       IN  IF ~ROk(r)
           THEN Thrown(Error(OrElse(Get(j, "detail"),
                                    "HTTP " \o ToString(r.status))))
           ELSE Returned(j)

\* failures the network or the backend can answer any request with
Failures == { NetErr, Http(500, FALSE, EmptyObj) }

\* failures with a JSON body, with and without a detail field
Rejections == { Http(400, TRUE, [detail |-> "bad input"]), Http(400, TRUE, EmptyObj) }

LoginPage == "/static/atlas-login.html"

\* ------------------------------------------------------------------- urls
\* the filter values consist of unreserved characters, which
\* encodeURIComponent leaves as they are
StatusOptions == <<"submitted", "needs_more", "approved", "rejected", "all">>
encodeURIComponent(s) == s

MeUrl == "/api/auth/me"
ObListUrl(status) ==
  "/api/admin/onboarding?status=" \o encodeURIComponent(status) \o "&limit=50"
ObUrl(id) == "/api/admin/onboarding/" \o id
ApproveUrl(id) == "/api/admin/onboarding/" \o id \o "/approve"
StatusUrl(id) == "/api/admin/onboarding/" \o id \o "/status"
IngestUrl == "/api/vault/ingest"
VaultListUrl == "/api/admin/vault/objects?source_key=all&limit=50"
OwnersUrl == "/api/admin/owners"
OwnersListUrl == "/api/admin/owners?limit=50"
AssetsUrl == "/api/admin/assets"
AssetsListUrl == "/api/admin/assets?limit=50"

Tabs == <<"onboarding", "vault", "owners", "assets">>
TabSet == {Tabs[i] : i \in DOMAIN Tabs}

\* the urls a list of the tab is fetched from
ListUrls(t) ==
  CASE t = "onboarding" -> {ObListUrl(StatusOptions[i]) : i \in DOMAIN StatusOptions}
    [] t = "vault" -> {VaultListUrl}
    [] t = "owners" -> {OwnersListUrl}
    [] t = "assets" -> {AssetsListUrl}

\* the element a list of the tab is rendered into
TableOf(t) ==
  CASE t = "onboarding" -> "ob_table"
    [] t = "vault" -> "v_table"
    [] t = "owners" -> "o_table"
    [] t = "assets" -> "a_table"

\* -------------------------------------------------------------- rendering
\* new Date(v).toLocaleString(): the locale's rendering of the instant
toLocaleString(m) == IF m = None THEN "Invalid Date" ELSE "date " \o m[1]

\* the columns of a table row: field and the way it is interpolated
Col(f, how) == [f |-> f, how |-> how]

Columns(t) ==
  CASE t = "onboarding" ->
         << Col("created_at", "date"), Col("status", "tpl"),
            Col("owner_name", "opt"), Col("owner_email", "opt"),
            Col("ip_assets_count", "tpl"), Col("id", "tpl") >>
    [] t = "vault" ->
         << Col("created_at", "date"), Col("source_key", "tpl"),
            Col("org_id", "opt"), Col("filename", "tpl"),
            Col("byte_size", "tpl"), Col("sha256", "tpl"), Col("id", "tpl") >>
    [] t = "owners" ->
         << Col("created_at", "date"), Col("legal_name", "tpl"),
            Col("entity_type", "opt"), Col("jurisdiction", "opt"),
            Col("email", "opt"), Col("id", "tpl") >>
    [] t = "assets" ->
         << Col("created_at", "date"), Col("title", "tpl"),
            Col("asset_type", "opt"), Col("status", "opt"),
            Col("reg_no", "opt"), Col("owner_name", "opt"), Col("id", "tpl") >>

Cell(r, c) ==
  CASE c.how = "date" -> toLocaleString(Get(r, c.f))
    [] c.how = "tpl" -> Tpl(Get(r, c.f))
    [] c.how = "opt" -> OrElse(Get(r, c.f), "")

Row(t, r) == [i \in DOMAIN Columns(t) |-> Cell(r, Columns(t)[i])]

\* a table built from the records in the opposite order
RowsOf_Reversed(t, j) ==
  LET rows == OrElse(Get(j, "items"), <<>>)
  IN  [i \in DOMAIN rows |-> Row(t, rows[Len(rows) + 1 - i])]

\* data.items || [] mapped to rows
RowsOf(t, j) ==
  LET rows == OrElse(Get(j, "items"), <<>>)
  IN  [i \in DOMAIN rows |-> Row(t, rows[i])]

\* the rows a sequence of records is rendered as
Rendered(t, items) == [i \in DOMAIN items |-> Row(t, items[i])]

\* the id the Open button of an onboarding row passes to openOnboarding
RowId(row) == row[Len(row)]

\* contents of an element
Absent == [kind |-> "absent"]
Empty == [kind |-> "empty"]
Loading == [kind |-> "loading"]
Table(rows) == [kind |-> "table", rows |-> rows]
Alert(cls, text) == [kind |-> "alert", cls |-> cls, text |-> text]
Detail(id, s) ==
  [kind |-> "detail", id |-> id, sid |-> Tpl(Get(s, "id")),
   status |-> Tpl(Get(s, "status")), notes |-> OrElse(Get(s, "notes"), "")]

ChooseFileAlert == Alert("danger", "Choose a file.")

\* --------------------------------------------------------- backend answers
Full(t) ==
  CASE t = "onboarding" ->
         [id |-> "s1", created_at |-> "t1", status |-> "submitted",
          owner_name |-> "Acme", owner_email |-> "a@acme", ip_assets_count |-> "2"]
    [] t = "vault" ->
         [id |-> "v1", created_at |-> "t1", source_key |-> "dossier",
          org_id |-> "org", filename |-> "b.zip", byte_size |-> "10", sha256 |-> "ab"]
    [] t = "owners" ->
         [id |-> "o1", created_at |-> "t1", legal_name |-> "Acme",
          entity_type |-> "llc", jurisdiction |-> "us", email |-> "a@acme"]
    [] t = "assets" ->
         [id |-> "a1", created_at |-> "t1", title |-> "Mark", asset_type |-> "tm",
          status |-> "live", reg_no |-> "r1", owner_name |-> "Acme"]

\* a record without its optional fields: every field other than id and
\* created_at may be absent
Sparse(t) ==
  CASE t = "onboarding" -> [id |-> "s2", created_at |-> "t2"]
    [] t = "vault" -> [id |-> "v2", created_at |-> "t2"]
    [] t = "owners" -> [id |-> "o2", created_at |-> "t2"]
    [] t = "assets" -> [id |-> "a2", created_at |-> "t2"]

ItemLists(t) == { <<>>, <<Sparse(t), Full(t)>> }

\* data.items || []
ItemsOf(j) == OrElse(Get(j, "items"), <<>>)

ListAnswers(t) ==
  {Http(200, TRUE, [items |-> l]) : l \in ItemLists(t)}
    \cup {Http(200, TRUE, EmptyObj), Http(500, FALSE, EmptyObj)}

MeAnswers ==
  { Http(200, TRUE, [email |-> "admin@atlas"]), Http(200, TRUE, [email |-> ""]),
    Http(200, TRUE, EmptyObj) } \cup Failures

\* ------------------------------------------------------------------ state
VARIABLES
  href,      \* window.location.href: the admin page or the login page
  display,   \* style.display of the four tab containers
  dom,       \* content of the elements the render routines create
  tasks,     \* the suspended handler invocations
  latest,    \* per tab, the outcome of the list fetch that was issued last
  used,      \* numbers of operator actions taken so far
  ev         \* the event of the last run and the invocation it ran

vars == <<href, display, dom, tasks, latest, used, ev>>

AdminPage == "/static/atlas-admin.html"

ElemIds ==
  {"ob_status", "ob_table", "ob_detail", "v_msg", "v_table",
   "o_msg", "o_table", "a_msg", "a_table"}

Slots == 1..MaxPending

\* entries of the trace of an invocation
Call(m, u, body) ==
  [e |-> "fetch", m |-> m, u |-> u, body |-> body, st |-> "pending"]
Dialog(kind, text, answer) ==
  [e |-> kind, text |-> text, answer |-> answer]

Task(op, pc, id, trace) ==
  [op |-> op, pc |-> pc, id |-> id, attached |-> TRUE, newest |-> FALSE,
   trace |-> trace]

Idle == Task("idle", "idle", "", <<>>)

\* a task that has run to its end: returned, returned from its catch block,
\* or rejected with nobody handling the rejection
Ended == {"done", "caught", "rejected"}

\* arg: what the operator chose or typed with the click
Event(type, op, arg, r, tk) ==
  [type |-> type, op |-> op, arg |-> arg, r |-> r, task |-> tk]

\* the invocation tk with the outcome of its pending request filled in
Settled(tk, res) ==
  [tk EXCEPT !.trace[Len(tk.trace)].st = IF res.ok THEN "ok" ELSE "fail"]

\* a handler that returns without its POST while a POST of an earlier call
\* of it is in flight
Awaiting_OneInFlight(tk, pc, m, u, body) ==
  IF m = "POST" /\ \E i \in Slots : tasks[i].op = tk.op /\ tasks[i].pc = "post"
  THEN [tk EXCEPT !.pc = "done"]
  ELSE [tk EXCEPT !.pc = pc, !.newest = TRUE,
                  !.trace = Append(tk.trace, Call(m, u, body))]

\* the invocation tk suspended at pc after one more call of fetch
Awaiting(tk, pc, m, u, body) ==
  [tk EXCEPT !.pc = pc, !.newest = TRUE,
             !.trace = Append(tk.trace, Call(m, u, body))]

\* a handler whose catch block issues its first request again
End_Retry(tk, pc) ==
  IF pc = "caught"
  THEN Awaiting(tk, "post", tk.trace[1].m, tk.trace[1].u, tk.trace[1].body)
  ELSE [tk EXCEPT !.pc = pc]

\* the invocation tk at its end
End(tk, pc) == [tk EXCEPT !.pc = pc]

\* the slot a new invocation is kept in
FreeSlot(ts) == CHOOSE i \in Slots : ts[i] = Idle /\ \A j \in 1..(i - 1) : ts[j] # Idle

\* the tab an invocation refreshes the list of
TabOfOp(op) ==
  CASE op \in {"renderOnboarding", "setOnboardingStatus", "approveOnboarding"} -> "onboarding"
    [] op \in {"renderVault", "vaultUpload"} -> "vault"
    [] op \in {"renderOwners", "createOwner"} -> "owners"
    [] op \in {"renderAssets", "createAsset"} -> "assets"

Fetch(st, items) == [st |-> st, items |-> items]

\* tasks and latest after the run of the invocation in slot sl, from the
\* tasks ts and the outcomes lt: the invocation tk has ended or is suspended
\* at a new request; a list fetch it has issued is the newest of its tab
Resume(sl, tk, ts, lt) ==
  /\ tasks' = [i \in Slots |->
                 IF i = sl THEN IF tk.pc \in Ended THEN Idle ELSE tk
                 ELSE IF tk.pc = "list" /\ ts[i].pc = "list"
                         /\ TabOfOp(ts[i].op) = TabOfOp(tk.op)
                      THEN [ts[i] EXCEPT !.newest = FALSE] ELSE ts[i]]
  /\ latest' = IF tk.pc = "list"
               THEN [lt EXCEPT ![TabOfOp(tk.op)] = Fetch("pending", <<>>)] ELSE lt

\* the script runs init() up to its first await when it is loaded
Init ==
  /\ href = AdminPage
  /\ display \in [TabSet -> {"block", "none"}]
  /\ dom = [e \in ElemIds |-> Absent]
  /\ tasks = [i \in Slots |->
                IF i = 1 THEN Task("init", "me", "", << Call("GET", MeUrl, EmptyObj) >>)
                ELSE Idle]
  /\ latest = [t \in TabSet |-> Fetch("none", <<>>)]
  /\ used = [clicks |-> 0, repeats |-> 0]
  /\ ev = Event("load", "init", "", NoResp, Task("init", "me", "", << Call("GET", MeUrl, EmptyObj) >>))

\* ------------------------------------------------------------ tab renders
RenderOp(t) ==
  CASE t = "onboarding" -> "renderOnboarding"
    [] t = "vault" -> "renderVault"
    [] t = "owners" -> "renderOwners"
    [] t = "assets" -> "renderAssets"

\* a render routine that rebuilds the form of the tab around the table it
\* finds
RenderDom_KeepTable(t, d) ==
  CASE t = "onboarding" ->
         [d EXCEPT !["ob_status"] = [kind |-> "select", value |-> StatusOptions[1]],
                   !["ob_table"] = IF @.kind = "table" THEN @ ELSE Empty,
                   !["ob_detail"] = Empty]
    [] t = "vault" -> [d EXCEPT !["v_msg"] = Empty,
                                !["v_table"] = IF @.kind = "table" THEN @ ELSE Empty]
    [] t = "owners" -> [d EXCEPT !["o_msg"] = Empty,
                                 !["o_table"] = IF @.kind = "table" THEN @ ELSE Empty]
    [] t = "assets" -> [d EXCEPT !["a_msg"] = Empty,
                                 !["a_table"] = IF @.kind = "table" THEN @ ELSE Empty]

\* el.innerHTML = ... of the render routine of tab t
RenderDom(t, d) ==
  CASE t = "onboarding" ->
         [d EXCEPT !["ob_status"] = [kind |-> "select", value |-> StatusOptions[1]],
                   !["ob_table"] = Empty, !["ob_detail"] = Empty]
    [] t = "vault" -> [d EXCEPT !["v_msg"] = Empty, !["v_table"] = Empty]
    [] t = "owners" -> [d EXCEPT !["o_msg"] = Empty, !["o_table"] = Empty]
    [] t = "assets" -> [d EXCEPT !["a_msg"] = Empty, !["a_table"] = Empty]

\* the elements a suspended invocation holds a reference to are no longer
\* in the document once the render routine has replaced them: ob_detail is
\* held by openOnboarding, v_msg by vaultUpload
RenderDetach(t, ts) ==
  [i \in DOMAIN ts |->
     IF \/ t = "onboarding" /\ ts[i].pc = "detail"
        \/ t = "vault" /\ ts[i].op = "vaultUpload"
     THEN [ts[i] EXCEPT !.attached = FALSE] ELSE ts[i]]

\* the url the list is fetched from, read from the document d
ListUrl(t, d) ==
  CASE t = "onboarding" -> ObListUrl(d["ob_status"].value)
    [] t = "vault" -> VaultListUrl
    [] t = "owners" -> OwnersListUrl
    [] t = "assets" -> AssetsListUrl

\* a render routine of tab t up to its await of the list, from the document d
Rendering(t, d) ==
  Awaiting(Task(RenderOp(t), "list", "", <<>>), "list", "GET",
           ListUrl(t, RenderDom(t, d)), EmptyObj)

\* a render routine of tab t started as a new invocation, from the
\* document d and the tasks ts
render(t, d, ts) ==
  /\ dom' = RenderDom(t, d)
  /\ Resume(FreeSlot(ts), Rendering(t, d), RenderDetach(t, ts), latest)

\* showTab that shows the selected container and hides no other
showTab_HideNone(name, ts) ==
  /\ display' = [display EXCEPT ![name] = "block"]
  /\ render(name, dom, ts)

\* showTab(name): display of the containers, then the render routine
showTab(name, ts) ==
  /\ display' = [t \in TabSet |-> IF t = name THEN "block" ELSE "none"]
  /\ render(name, dom, ts)

\* ------------------------------------------------------------------- init
\* init without the check of me.email
SessionOk_AnyBody(res) == res.ok

\* guard of init: the login page is shown unless me.email is truthy
SessionOk(res) == res.ok /\ Truthy(Get(res.j, "email"))

\* the answer to GET /api/auth/me arrives
MeResponse(sl, r) ==
  /\ href = AdminPage
  /\ tasks[sl].pc = "me"
  /\ LET res == api(r)
         tk == End(Settled(tasks[sl], res), "done")
     IN  /\ IF SessionOk(res)
            THEN /\ showTab("onboarding", [tasks EXCEPT ![sl] = Idle])
                 /\ ev' = Event("response", "init", "", r, tk)
                 /\ href' = href
            ELSE /\ href' = LoginPage
                 /\ Resume(sl, tk, tasks, latest)
                 /\ ev' = Event("response", "init", "", r, tk)
                 /\ UNCHANGED <<display, dom>>
         /\ used' = used

\* init has shown the first tab and the page has not been left
Ready == href = AdminPage /\ \A i \in Slots : tasks[i].op # "init"

\* ------------------------------------------------------- operator actions
\* the operator can select a tab or a filter value once more
CanNav ==
  /\ Ready
  /\ \E i \in Slots : tasks[i] = Idle
  /\ used.clicks < MaxClicks

\* the operator can click a button once more
CanSubmit ==
  /\ Ready
  /\ \E i \in Slots : tasks[i] = Idle
  /\ used.clicks < MaxClicks

\* a tab selector is clicked
ClickTab(name) ==
  /\ CanNav
  /\ showTab(name, tasks)
  /\ ev' = Event("click", "showTab", name, NoResp, Rendering(name, dom))
  /\ used' = [used EXCEPT !.clicks = @ + 1]
  /\ href' = href

\* the status filter is set to v: onchange="renderOnboarding()"
ChangeFilter(v) ==
  /\ CanNav
  /\ display["onboarding"] = "block"
  /\ dom["ob_status"].kind = "select"
  /\ dom["ob_status"].value # v
  /\ render("onboarding", [dom EXCEPT !["ob_status"].value = v], tasks)
  /\ ev' = Event("change", "renderOnboarding", v, NoResp,
                 Rendering("onboarding", [dom EXCEPT !["ob_status"].value = v]))
  /\ used' = [used EXCEPT !.clicks = @ + 1]
  /\ UNCHANGED <<href, display>>

\* ---------------------------------------------------------- list answers
\* renderOnboarding called by the invocation tk, which awaits it
RenderInline(sl, tk, d, ts) ==
  /\ dom' = RenderDom("onboarding", d)
  /\ Resume(sl, Awaiting(tk, "list", "GET", ListUrl("onboarding", RenderDom("onboarding", d)), EmptyObj),
            RenderDetach("onboarding", ts), latest)

\* openOnboarding(id) up to its await, called by the invocation tk
Opening(tk) ==
  [Awaiting(tk, "detail", "GET", ObUrl(tk.id), EmptyObj) EXCEPT !.attached = TRUE]

OpenInline(sl, tk, d, ts, lt) ==
  /\ dom' = [d EXCEPT !["ob_detail"] = Loading]
  /\ Resume(sl, Opening(tk), ts, lt)

\* the element an error is shown in by the catch block
MsgOf(op) ==
  CASE op = "vaultUpload" -> "v_msg"
    [] op = "createOwner" -> "o_msg"
    [] op = "createAsset" -> "a_msg"

\* the handlers whose awaits are inside a try block
Catching == {"vaultUpload", "createOwner", "createAsset"}

\* what the catch block of the invocation tk leaves in the document d;
\* vaultUpload writes to the element it looked up when it started
CatchDom(tk, d, e) ==
  IF tk.op = "vaultUpload" /\ ~tk.attached THEN d
  ELSE [d EXCEPT ![MsgOf(tk.op)] = Alert("danger", ErrorToString(e))]

\* the answer to a list fetch arrives: the body of renderOnboarding after
\* its await, or of refreshVaultList, refreshOwners, refreshAssets, and what
\* the caller does next
ListResponse(sl, r) ==
  /\ href = AdminPage
  /\ tasks[sl].pc = "list"
  /\ r \in ListAnswers(TabOfOp(tasks[sl].op))
  /\ LET op == tasks[sl].op
         t == TabOfOp(op)
         res == api(r)
         tk == Settled(tasks[sl], res)
         lt == IF tasks[sl].newest
               THEN [latest EXCEPT ![t] = IF res.ok THEN Fetch("ok", ItemsOf(res.j))
                                         ELSE Fetch("fail", <<>>)]
               ELSE latest
         shown == [dom EXCEPT ![TableOf(t)] = Table(RowsOf(t, res.j))]
     IN  /\ UNCHANGED <<href, display, used>>
         /\ IF res.ok
            THEN IF op \in {"setOnboardingStatus", "approveOnboarding"}
                 THEN /\ OpenInline(sl, tk, shown, tasks, lt)
                      /\ ev' = Event("response", op, "", r, Opening(tk))
                 ELSE /\ dom' = shown
                      /\ Resume(sl, End(tk, "done"), tasks, lt)
                      /\ ev' = Event("response", op, "", r, End(tk, "done"))
            ELSE IF op \in Catching
                 THEN /\ dom' = CatchDom(tk, dom, res.e)
                      /\ Resume(sl, End(tk, "caught"), tasks, lt)
                      /\ ev' = Event("response", op, "", r, End(tk, "caught"))
                 ELSE /\ dom' = dom
                      /\ Resume(sl, End(tk, "rejected"), tasks, lt)
                      /\ ev' = Event("response", op, "", r, End(tk, "rejected"))

\* ------------------------------------------------------ onboarding detail
DetailAnswers(id) ==
  { Http(200, TRUE, [submission |-> [id |-> id, status |-> "approved"]]),
    Http(200, TRUE, EmptyObj) } \cup Failures

\* ids the Open button of a row can carry
SubmissionIds == {"s1", "s2"}

\* the Open button of a row of the list is clicked: openOnboarding(id) up
\* to its await
OpenOnboarding(id) ==
  /\ CanSubmit
  /\ display["onboarding"] = "block"
  /\ dom["ob_table"].kind = "table"
  /\ \E i \in DOMAIN dom["ob_table"].rows : RowId(dom["ob_table"].rows[i]) = id
  /\ LET tk == Opening(Task("openOnboarding", "detail", id, <<>>))
     IN  /\ dom' = [dom EXCEPT !["ob_detail"] = Loading]
         /\ Resume(FreeSlot(tasks), tk, tasks, latest)
         /\ ev' = Event("click", "openOnboarding", id, NoResp, tk)
  /\ used' = [used EXCEPT !.clicks = @ + 1]
  /\ UNCHANGED <<href, display>>

\* the answer to the detail fetch arrives: openOnboarding after its await,
\* as a handler of its own or as the last call of a mutating handler.  The
\* record is written to the element looked up before the await; reading a
\* field of an absent submission throws.
DetailResponse(sl, r) ==
  /\ href = AdminPage
  /\ tasks[sl].pc = "detail"
  /\ r \in DetailAnswers(tasks[sl].id)
  /\ LET res == api(r)
         s == Get(res.j, "submission")
         tk == End(Settled(tasks[sl], res), IF res.ok /\ s # None THEN "done" ELSE "rejected")
     IN  /\ dom' = IF res.ok /\ s # None /\ tasks[sl].attached
                   THEN [dom EXCEPT !["ob_detail"] = Detail(tasks[sl].id, s[1])]
                   ELSE dom
         /\ Resume(sl, tk, tasks, latest)
         /\ ev' = Event("response", tasks[sl].op, "", r, tk)
  /\ UNCHANGED <<href, display, used>>

\* the detail view shows a record, with its Update and Approve buttons
DetailShown(id) ==
  /\ display["onboarding"] = "block"
  /\ dom["ob_detail"].kind = "detail"
  /\ dom["ob_detail"].id = id

\* values the operator leaves the status selector of the detail view at
StatusInputs == {"rejected"}

\* setOnboardingStatus(id) up to its await of the POST, with status chosen
\* in the selector of the detail view
setOnboardingStatus(id, status) ==
  /\ DetailShown(id)
  /\ LET tk == Awaiting(Task("setOnboardingStatus", "post", id, <<>>), "post", "POST",
                        StatusUrl(id), [status |-> status, notes |-> dom["ob_detail"].notes])
     IN  /\ Resume(FreeSlot(tasks), tk, tasks, latest)
         /\ ev' = Event("click", "setOnboardingStatus", status, NoResp, tk)
  /\ UNCHANGED <<href, display, dom>>

\* Update is clicked
SetOnboardingStatus(id, status) ==
  /\ CanSubmit
  /\ setOnboardingStatus(id, status)
  /\ used' = [used EXCEPT !.clicks = @ + 1]

PostAnswers(j) == {Http(200, TRUE, j)} \cup Failures \cup Rejections

\* the answer to the status POST arrives: renderOnboarding is called
StatusPosted(sl, r) ==
  /\ href = AdminPage
  /\ tasks[sl].op = "setOnboardingStatus"
  /\ tasks[sl].pc = "post"
  /\ r \in PostAnswers(EmptyObj)
  /\ LET res == api(r)
         tk == Settled(tasks[sl], res)
     IN  IF res.ok
         THEN /\ RenderInline(sl, tk, dom, tasks)
              /\ ev' = Event("response", "setOnboardingStatus", "", r,
                             Awaiting(tk, "list", "GET", ListUrl("onboarding", RenderDom("onboarding", dom)), EmptyObj))
         ELSE /\ dom' = dom
              /\ Resume(sl, End(tk, "rejected"), tasks, latest)
              /\ ev' = Event("response", "setOnboardingStatus", "", r, End(tk, "rejected"))
  /\ UNCHANGED <<href, display, used>>

ConfirmText == "Approve this onboarding and create Owner + Assets + Owner login?"

\* the text of the alert that shows the credential of the created login
CredentialText(j) ==
  "OWNER LOGIN CREATED\n\nEmail: " \o Tpl(Get(j, "user_email"))
    \o "\nTemp Password: " \o Tpl(Get(j, "temp_password"))
    \o "\n\n(You should copy this now.)"

\* approveOnboarding without the return after a declined confirm()
Confirmed_Always(answer) == TRUE

\* the handler goes on after confirm() only when the operator accepted
Confirmed(answer) == answer

\* Approve is clicked and the operator answers the confirm dialog:
\* approveOnboarding(id) up to its return or its await of the POST
ApproveOnboarding(id, answer) ==
  /\ CanSubmit
  /\ DetailShown(id)
  /\ LET asked == Task("approveOnboarding", "post", id, << Dialog("confirm", ConfirmText, answer) >>)
         tk == IF Confirmed(answer)
               THEN Awaiting(asked, "post", "POST", ApproveUrl(id), EmptyObj)
               ELSE End(asked, "done")
     IN  /\ Resume(FreeSlot(tasks), tk, tasks, latest)
         /\ ev' = Event("click", "approveOnboarding", id, NoResp, tk)
  /\ used' = [used EXCEPT !.clicks = @ + 1]
  /\ UNCHANGED <<href, display, dom>>

ApproveAnswers ==
  PostAnswers([user_email |-> "owner@acme", temp_password |-> "pw-1"])

\* the invocation tk after alert(text)
Alerted(tk, text) == [tk EXCEPT !.trace = Append(tk.trace, Dialog("alert", text, TRUE))]

\* the answer to the approve POST arrives: the credential is shown in an
\* alert, then renderOnboarding is called
ApprovePosted(sl, r) ==
  /\ href = AdminPage
  /\ tasks[sl].op = "approveOnboarding"
  /\ tasks[sl].pc = "post"
  /\ r \in ApproveAnswers
  /\ LET res == api(r)
         tk == Settled(tasks[sl], res)
         told == Alerted(tk, CredentialText(res.j))
     IN  IF res.ok
         THEN /\ RenderInline(sl, told, dom, tasks)
              /\ ev' = Event("response", "approveOnboarding", "", r,
                             Awaiting(told, "list", "GET", ListUrl("onboarding", RenderDom("onboarding", dom)), EmptyObj))
         ELSE /\ dom' = dom
              /\ Resume(sl, End(tk, "rejected"), tasks, latest)
              /\ ev' = Event("response", "approveOnboarding", "", r, End(tk, "rejected"))
  /\ UNCHANGED <<href, display, used>>

\* ------------------------------------------------------------ form values
JsNull == [type |-> "null"]
JsString(chars) == [type |-> "string", chars |-> chars]

\* value.trim() of a text field
Field(chars) == JsString(trim(chars))

\* the owner field sent as typed once trimmed, without || null
OwnerId_EmptyString(chars) == JsString(trim(chars))

\* value.trim() || null of the owner field of the asset form
OwnerId(chars) == IF trim(chars) = <<>> THEN JsNull ELSE JsString(trim(chars))

Chars == {" ", "o"}
OwnerInputs == UNION {[1..n -> Chars] : n \in 0..MaxOwnerLen}

\* ------------------------------------------------------------------ vault
\* vaultUpload without the check of the file
NoFile_Unchecked(hasFile) == FALSE

\* the ingest form has no file attached
NoFile(hasFile) == ~hasFile

IngestForm ==
  [source_key |-> Field(<<"d", "o", "s">>), org_id |-> Field(<<" ", "o">>),
   tenant_id |-> Field(<<>>), schema_version |-> Field(<<"1", " ">>),
   manifest_json |-> Field(<<>>), bundle |-> "file"]

\* vaultUpload() up to its return or its await of the POST
vaultUpload(hasFile) ==
  /\ display["vault"] = "block"
  /\ dom["v_msg"].kind # "absent"
  /\ LET started == Task("vaultUpload", "post", "", <<>>)
         tk == IF NoFile(hasFile) THEN End(started, "done")
               ELSE Awaiting(started, "post", "POST", IngestUrl, IngestForm)
     IN  /\ dom' = [dom EXCEPT !["v_msg"] = IF NoFile(hasFile) THEN ChooseFileAlert ELSE Empty]
         /\ Resume(FreeSlot(tasks), tk, tasks, latest)
         /\ ev' = Event("click", "vaultUpload", IF hasFile THEN "file" ELSE "", NoResp, tk)
  /\ UNCHANGED <<href, display>>

\* Ingest is clicked
VaultUpload(hasFile) ==
  /\ CanSubmit
  /\ vaultUpload(hasFile)
  /\ used' = [used EXCEPT !.clicks = @ + 1]

\* the try block of vaultUpload up to the success message: fetch, r.json()
\* and the check of r.ok
ingest(r) ==
  IF r.kind = "neterr" THEN Thrown(TypeError("Failed to fetch"))
  ELSE IF ~r.json THEN Thrown(SyntaxError("Unexpected end of JSON input"))
  ELSE IF ~ROk(r) THEN Thrown(Error(OrElse(Get(r.body, "detail"), "ingest failed")))
  ELSE Returned(r.body)

IngestAnswers ==
  PostAnswers([object_id |-> "v3", sha256 |-> "ef"]) \cup {Http(200, FALSE, EmptyObj)}

IngestedAlert(j) ==
  Alert("success", "Ingested. Object ID: " \o Tpl(Get(j, "object_id"))
                     \o " SHA256: " \o Tpl(Get(j, "sha256")))

\* the answer to the ingest POST arrives
IngestPosted(sl, r) ==
  /\ href = AdminPage
  /\ tasks[sl].op = "vaultUpload"
  /\ tasks[sl].pc = "post"
  /\ r \in IngestAnswers
  /\ LET res == ingest(r)
         tk == IF res.ok
               THEN Awaiting(Settled(tasks[sl], res), "list", "GET", VaultListUrl, EmptyObj)
               ELSE End(Settled(tasks[sl], res), "caught")
     IN  /\ dom' = IF res.ok
                   THEN IF tasks[sl].attached
                        THEN [dom EXCEPT !["v_msg"] = IngestedAlert(res.j)] ELSE dom
                   ELSE CatchDom(tasks[sl], dom, res.e)
         /\ Resume(sl, tk, tasks, latest)
         /\ ev' = Event("response", "vaultUpload", "", r, tk)
  /\ UNCHANGED <<href, display, used>>

\* ------------------------------------------------------- owners and assets
OwnerForm ==
  [legal_name |-> Field(<<" ", "A", "c">>), entity_type |-> Field(<<"l">>),
   jurisdiction |-> Field(<<>>), email |-> Field(<<"a", " ">>),
   address |-> Field(<<>>), phone |-> Field(<<>>)]

AssetForm(owner) ==
  [owner_id |-> OwnerId(owner), title |-> Field(<<"M", " ">>),
   asset_type |-> Field(<<>>), reg_no |-> Field(<<>>), description |-> Field(<<>>)]

\* createOwner() up to its await
createOwner ==
  /\ display["owners"] = "block"
  /\ dom["o_msg"].kind # "absent"
  /\ LET tk == Awaiting(Task("createOwner", "post", "", <<>>), "post", "POST", OwnersUrl, OwnerForm)
     IN  /\ Resume(FreeSlot(tasks), tk, tasks, latest)
         /\ ev' = Event("click", "createOwner", "", NoResp, tk)
  /\ UNCHANGED <<href, display, dom>>

\* Create is clicked on the owners tab
CreateOwner ==
  /\ CanSubmit
  /\ createOwner
  /\ used' = [used EXCEPT !.clicks = @ + 1]

\* createAsset() up to its await, with owner typed into the owner field
createAsset(owner) ==
  /\ display["assets"] = "block"
  /\ dom["a_msg"].kind # "absent"
  /\ LET tk == Awaiting(Task("createAsset", "post", "", <<>>), "post", "POST", AssetsUrl, AssetForm(owner))
     IN  /\ Resume(FreeSlot(tasks), tk, tasks, latest)
         /\ ev' = Event("click", "createAsset", owner, NoResp, tk)
  /\ UNCHANGED <<href, display, dom>>

\* Create is clicked on the assets tab
CreateAsset(owner) ==
  /\ CanSubmit
  /\ createAsset(owner)
  /\ used' = [used EXCEPT !.clicks = @ + 1]

CreatedAlert(op, j) ==
  Alert("success",
        (IF op = "createOwner" THEN "Created owner " ELSE "Created asset ")
          \o Tpl(Get(j, "id")))

CreateAnswers == PostAnswers([id |-> "n1"])

\* the answer to the POST of createOwner or createAsset arrives
CreatePosted(sl, r) ==
  /\ href = AdminPage
  /\ tasks[sl].op \in {"createOwner", "createAsset"}
  /\ tasks[sl].pc = "post"
  /\ r \in CreateAnswers
  /\ LET op == tasks[sl].op
         res == api(r)
         tk == IF res.ok
               THEN Awaiting(Settled(tasks[sl], res), "list", "GET", ListUrl(TabOfOp(op), dom), EmptyObj)
               ELSE End(Settled(tasks[sl], res), "caught")
     IN  /\ dom' = IF res.ok
                   THEN [dom EXCEPT ![MsgOf(op)] = CreatedAlert(op, res.j)]
                   ELSE CatchDom(tasks[sl], dom, res.e)
         /\ Resume(sl, tk, tasks, latest)
         /\ ev' = Event("response", op, "", r, tk)
  /\ UNCHANGED <<href, display, used>>

Next ==
  \/ \E sl \in Slots : \E r \in MeAnswers : MeResponse(sl, r)
  \/ \E t \in TabSet : ClickTab(t)
  \/ \E i \in DOMAIN StatusOptions : ChangeFilter(StatusOptions[i])
  \/ \E sl \in Slots : \E r \in UNION {ListAnswers(t) : t \in TabSet} : ListResponse(sl, r)
  \/ \E id \in SubmissionIds : OpenOnboarding(id)
  \/ \E sl \in Slots : \E r \in UNION {DetailAnswers(id) : id \in SubmissionIds} : DetailResponse(sl, r)
  \/ \E id \in SubmissionIds : \E st \in StatusInputs : SetOnboardingStatus(id, st)
  \/ \E sl \in Slots : \E r \in PostAnswers(EmptyObj) : StatusPosted(sl, r)
  \/ \E id \in SubmissionIds : \E answer \in BOOLEAN : ApproveOnboarding(id, answer)
  \/ \E sl \in Slots : \E r \in ApproveAnswers : ApprovePosted(sl, r)
  \/ \E hasFile \in BOOLEAN : VaultUpload(hasFile)
  \/ \E sl \in Slots : \E r \in IngestAnswers : IngestPosted(sl, r)
  \/ CreateOwner
  \/ \E owner \in OwnerInputs : CreateAsset(owner)
  \/ \E sl \in Slots : \E r \in CreateAnswers : CreatePosted(sl, r)

Spec == Init /\ [][Next]_vars

\* -------------------------------------------------------- double submission
\* the mutating handlers that are started by a button without a dialog
Submitting == {"setOnboardingStatus", "vaultUpload", "createOwner", "createAsset"}

\* the button clicked last started one of these handlers, its POST is in
\* flight and the operator can click it once more
CanRepeat ==
  /\ Ready
  /\ \E i \in Slots : tasks[i] = Idle
  /\ ev.type = "click" /\ ev.op \in Submitting /\ ev.task.pc = "post"
  /\ used.repeats < MaxRepeats

\* the button clicked last is clicked again with the form as it was: the
\* handler runs a second time
DoubleSubmit ==
  /\ CanRepeat
  /\ \/ ev.op = "setOnboardingStatus" /\ setOnboardingStatus(ev.task.id, ev.arg)
     \/ ev.op = "vaultUpload" /\ vaultUpload(TRUE)
     \/ ev.op = "createOwner" /\ createOwner
     \/ ev.op = "createAsset" /\ createAsset(ev.arg)
  /\ used' = [used EXCEPT !.repeats = @ + 1]

\* the answers of a backend that answers every request with 200 and a JSON
\* body, and no list request with an empty items
Plain(answers) ==
  {r \in answers :
     /\ r.kind = "http" /\ r.status = 200 /\ r.json
     /\ "items" \in DOMAIN r.body => Len(r.body.items) > 0}

\* the panel with an operator who also repeats clicks and types one owner
\* id, and such a backend
NextDouble ==
  \/ \E sl \in Slots : \E r \in Plain(MeAnswers) : MeResponse(sl, r)
  \/ \E t \in TabSet : ClickTab(t)
  \/ \E sl \in Slots : \E r \in Plain(UNION {ListAnswers(t) : t \in TabSet}) : ListResponse(sl, r)
  \/ \E id \in SubmissionIds : OpenOnboarding(id)
  \/ \E sl \in Slots : \E r \in Plain(UNION {DetailAnswers(id) : id \in SubmissionIds}) : DetailResponse(sl, r)
  \/ \E id \in SubmissionIds : \E st \in StatusInputs : SetOnboardingStatus(id, st)
  \/ \E sl \in Slots : \E r \in Plain(PostAnswers(EmptyObj)) : StatusPosted(sl, r)
  \/ \E hasFile \in BOOLEAN : VaultUpload(hasFile)
  \/ \E sl \in Slots : \E r \in Plain(IngestAnswers) : IngestPosted(sl, r)
  \/ CreateOwner
  \/ CreateAsset(<<"o">>)
  \/ \E sl \in Slots : \E r \in Plain(CreateAnswers) : CreatePosted(sl, r)
  \/ DoubleSubmit

SpecDouble == Init /\ [][NextDouble]_vars

\* ================================================================= claims
\* the answer r is a 2xx answer whose body has a truthy email
HasIdentity(r) ==
  /\ r.kind = "http" /\ r.status \in 200..299 /\ r.json
  /\ "email" \in DOMAIN r.body /\ r.body.email # ""

\* no handler other than init has run: nothing is rendered, nothing is
\* pending and the operator has done nothing
NothingStarted ==
  /\ \A e \in ElemIds : dom[e] = Absent
  /\ \A i \in Slots : tasks[i].op \in {"idle", "init"}
  /\ \A t \in TabSet : latest[t].st = "none"
  /\ used = [clicks |-> 0, repeats |-> 0]

\* the calls of fetch in the trace of an invocation
Calls(tk) == {k \in DOMAIN tk.trace : tk.trace[k].e = "fetch"}

\* C1: init issues exactly one GET /api/auth/me; when that call fails or
\* answers without a truthy email the page goes to the login page and
\* nothing else is started or requested during the page load; the first
\* tab is shown only after an answer with a truthy email.
C1_SessionGuard ==
  /\ \A i \in Slots :
       /\ tasks[i].op = "init" => tasks[i].trace = << Call("GET", MeUrl, EmptyObj) >>
       /\ tasks[i].op # "init" => \A k \in Calls(tasks[i]) : tasks[i].trace[k].u # MeUrl
  /\ Cardinality({i \in Slots : tasks[i].op = "init"}) <= 1
  /\ (ev.op = "init" /\ ev.type = "response" /\ ~HasIdentity(ev.r))
       => (href = LoginPage /\ NothingStarted /\ \A i \in Slots : tasks[i] = Idle)
  /\ (ev.op = "init" /\ ev.type = "response" /\ HasIdentity(ev.r))
       => /\ href = AdminPage
          /\ display["onboarding"] = "block"
          /\ \E i \in Slots : tasks[i].op = "renderOnboarding"
  /\ href = LoginPage => NothingStarted
  /\ ~NothingStarted => href = AdminPage /\ \A i \in Slots : tasks[i].op # "init"

\* the session check answered 200 without a truthy email and the page went
\* to the login page
C1_Witness ==
  /\ ev.op = "init" /\ ev.type = "response"
  /\ ev.r.kind = "http" /\ ev.r.status = 200 /\ ~HasIdentity(ev.r)
  /\ href = LoginPage

\* the elements of a tab
TabElems(t) ==
  CASE t = "onboarding" -> {"ob_status", "ob_table", "ob_detail"}
    [] t = "vault" -> {"v_msg", "v_table"}
    [] t = "owners" -> {"o_msg", "o_table"}
    [] t = "assets" -> {"a_msg", "a_table"}

\* the tab a handler belongs to
ViewOf(op) == IF op = "openOnboarding" THEN "onboarding" ELSE TabOfOp(op)

\* the answer r is a failure of the call: no answer, or a non-2xx answer
Failed(r) == r.kind = "neterr" \/ (r.kind = "http" /\ r.status \notin 200..299)

\* C2: every list, detail, create and ingest operation catches the failure
\* of any of its network calls and ends with an inline alert in its view;
\* no such failure leaves the handler as an unhandled rejection.
C2_FailuresCaught ==
  (ev.type = "response" /\ ev.op # "init" /\ Failed(ev.r))
    => /\ ev.task.pc = "caught"
       /\ \E e \in TabElems(ViewOf(ev.op)) : dom[e].kind = "alert" /\ dom[e].cls = "danger"

\* no list fetch of tab t is pending
NoListPending(t) == \A i \in Slots : tasks[i].pc = "list" => TabOfOp(tasks[i].op) # t

\* C3, in the states where the list fetch of the visible tab that was issued
\* last has succeeded (it is then the most recently issued successful one):
\* when no list fetch of the visible tab is pending, the rows of its table
\* are the items of that fetch, whatever the order the answers arrived in.
C3_RowsAreLatest ==
  \A t \in TabSet :
    (display[t] = "block" /\ latest[t].st = "ok" /\ NoListPending(t))
      => dom[TableOf(t)] = Table(Rendered(t, latest[t].items))

Mutating ==
  {"setOnboardingStatus", "approveOnboarding", "createOwner", "createAsset", "vaultUpload"}

\* the calls of the trace of tk that are POSTs and returned
PostsDone(tk) == {k \in Calls(tk) : tk.trace[k].m = "POST" /\ tk.trace[k].st = "ok"}

\* C4: a mutating handler whose POST succeeded issues, after the POST and
\* before it completes, a GET of the affected list; the two onboarding
\* actions issue, after that list GET has completed, a GET of the detail of
\* the same id.
C4_RefetchAfterMutation ==
  LET tk == ev.task
  IN  (tk.op \in Mutating /\ tk.pc \in Ended /\ PostsDone(tk) # {})
        => \E p \in PostsDone(tk) : \E l \in Calls(tk) :
             /\ p < l
             /\ tk.trace[l].m = "GET"
             /\ tk.trace[l].u \in ListUrls(TabOfOp(tk.op))
             /\ tk.op \in {"setOnboardingStatus", "approveOnboarding"}
                  => \E d \in Calls(tk) :
                       /\ l < d
                       /\ tk.trace[d].m = "GET"
                       /\ tk.trace[d].u = ObUrl(tk.id)

\* C5: vaultUpload with no file attached issues no request, shows the
\* "Choose a file" error in the message area and leaves the object list as
\* it was.
C5_NoFileNoRequest ==
  [][ (ev'.type = "click" /\ ev'.op = "vaultUpload" /\ ev'.arg = "")
        => /\ ev'.task.trace = <<>>
           /\ ev'.task.pc = "done"
           /\ tasks' = tasks
           /\ latest' = latest
           /\ dom'["v_msg"] = Alert("danger", "Choose a file.")
           /\ dom'["v_table"] = dom["v_table"] ]_vars

\* Ingest was clicked with no file while the object list showed rows
C5_Witness ==
  /\ ev.type = "click" /\ ev.op = "vaultUpload" /\ ev.arg = ""
  /\ dom["v_table"].kind = "table" /\ dom["v_table"].rows # <<>>
  /\ dom["v_msg"] = ChooseFileAlert

\* C6: createOwner, createAsset and vaultUpload surface a non-2xx answer
\* with a detail field d as exactly d, and one without a body or without a
\* detail field as "HTTP <status>".
C6_SurfacedMessage ==
  (ev.type = "response" /\ ev.op \in Catching /\ ev.r.kind = "http"
     /\ ev.r.status \notin 200..299 /\ ev.task.attached)
    => /\ dom[MsgOf(ev.op)].kind = "alert"
       /\ dom[MsgOf(ev.op)].text =
            IF ev.r.json /\ "detail" \in DOMAIN ev.r.body
            THEN ev.r.body.detail
            ELSE "HTTP " \o ToString(ev.r.status)

\* C7: the approve POST is issued only after the operator has accepted the
\* confirm dialog of the same click; a declined dialog leaves no request,
\* no credential alert and the list and detail views as they were.
C7_ApproveNeedsConfirm ==
  /\ [](\A i \in Slots : \A k \in Calls(tasks[i]) :
          tasks[i].trace[k].u = ApproveUrl(tasks[i].id)
            => /\ k = 2
               /\ tasks[i].trace[1] = Dialog("confirm", ConfirmText, TRUE))
  /\ [][ (ev'.type = "click" /\ ev'.op = "approveOnboarding")
           => LET tr == ev'.task.trace
              IN  /\ tr[1].e = "confirm"
                  /\ IF tr[1].answer
                     THEN /\ Len(tr) = 2
                          /\ tr[2] = Call("POST", ApproveUrl(ev'.arg), EmptyObj)
                     ELSE /\ Len(tr) = 1
                          /\ tasks' = tasks
                          /\ latest' = latest
                          /\ dom' = dom ]_vars

\* Approve was clicked on a shown record and the dialog was declined
C7_Witness ==
  /\ ev.type = "click" /\ ev.op = "approveOnboarding"
  /\ ~ev.task.trace[1].answer
  /\ dom["ob_detail"].kind = "detail"

\* C8: after a confirmed approve whose POST succeeds the alert shows
\* user_email and temp_password as returned, before any refresh request;
\* then the list and after it the detail of the id are fetched again, and
\* when the handler completes both views show the record.
C8_ApproveShowsAndRefreshes ==
  LET tk == ev.task
  IN  /\ (tk.op = "approveOnboarding" /\ ev.type = "response" /\ Len(tk.trace) = 4
            /\ tk.trace[4].st = "pending")
          => tk.trace[3] = Dialog("alert",
                                  "OWNER LOGIN CREATED\n\nEmail: " \o ev.r.body.user_email
                                    \o "\nTemp Password: " \o ev.r.body.temp_password
                                    \o "\n\n(You should copy this now.)", TRUE)
      /\ (tk.op = "approveOnboarding" /\ tk.pc \in Ended /\ PostsDone(tk) # {})
          => /\ Len(tk.trace) = 5
             /\ tk.trace[3].e = "alert"
             /\ tk.trace[4].u \in ListUrls("onboarding") /\ tk.trace[4].st = "ok"
             /\ tk.trace[5].u = ObUrl(tk.id) /\ tk.trace[5].st = "ok"
             /\ dom["ob_table"].kind = "table"
             /\ dom["ob_detail"].kind = "detail" /\ dom["ob_detail"].sid = tk.id

\* r is v without the whitespace at its two ends
IsTrimmed(r, v) ==
  /\ r # <<>> /\ r[1] \notin Whitespace /\ r[Len(r)] \notin Whitespace
  /\ \E a \in 0..Len(v) :
       /\ a + Len(r) <= Len(v)
       /\ SubSeq(v, a + 1, a + Len(r)) = r
       /\ \A k \in 1..a : v[k] \in Whitespace
       /\ \A k \in (a + Len(r) + 1)..Len(v) : v[k] \in Whitespace

\* C9: createAsset sends owner_id null, never an empty string, when the
\* owner field is empty or holds only whitespace, and otherwise the value
\* of the field without its surrounding whitespace.
C9_OwnerIdNullOrTrimmed ==
  (ev.type = "click" /\ ev.op = "createAsset")
    => LET sent == ev.task.trace[1].body.owner_id
       IN  IF \A k \in DOMAIN ev.arg : ev.arg[k] \in Whitespace
           THEN sent = JsNull
           ELSE sent.type = "string" /\ IsTrimmed(sent.chars, ev.arg)

\* Create was clicked with only whitespace typed into the owner field
C9_Witness ==
  /\ ev.type = "click" /\ ev.op = "createAsset"
  /\ ev.arg # <<>> /\ \A k \in DOMAIN ev.arg : ev.arg[k] \in Whitespace
  /\ ev.task.trace[1].body.owner_id = JsNull

\* C10: every showTab(t), also for the tab that is visible already,
\* replaces the content of the tab at once, so that no rows of an earlier
\* fetch are left in it, and issues exactly one new list GET for the tab.
C10_ShowTabRerenders ==
  [][ (ev'.type = "click" /\ ev'.op = "showTab")
        => LET t == ev'.arg
           IN  /\ dom'[TableOf(t)] = Empty
               /\ \A e \in TabElems(t) : dom'[e].kind \in {"empty", "select"}
               /\ Len(ev'.task.trace) = 1
               /\ ev'.task.trace[1].e = "fetch"
               /\ ev'.task.trace[1].m = "GET"
               /\ ev'.task.trace[1].u \in ListUrls(t)
               /\ \E i \in Slots :
                    /\ tasks[i] = Idle
                    /\ tasks'[i] = ev'.task
                    /\ \A j \in Slots \ {i} : tasks'[j].trace = tasks[j].trace ]_vars

\* the tab that is visible was selected again while an earlier fetch of its
\* list was still pending
C10_Witness ==
  /\ ev.type = "click" /\ ev.op = "showTab" /\ ev.arg = "onboarding"
  /\ dom["ob_table"] = Empty
  /\ \E i \in Slots : tasks[i].op = "renderOnboarding" /\ ~tasks[i].newest

\* the tab containers that are visible
Visible == {t \in TabSet : display[t] = "block"}

\* C11: once the session check has succeeded exactly one tab container is
\* visible: onboarding when init has shown the first tab, after a showTab
\* the tab it names, and no other event, in particular no answer to a
\* fetch, changes which container is visible.
C11_OneTabVisible ==
  /\ [](Ready => Cardinality(Visible) = 1)
  /\ [][ /\ (ev'.type = "response" /\ ev'.op = "init" /\ href' = AdminPage)
             => Visible' = {"onboarding"}
         /\ (ev'.type = "click" /\ ev'.op = "showTab") => Visible' = {ev'.arg}
         /\ (Ready /\ ~(ev'.type = "click" /\ ev'.op = "showTab"))
             => display' = display ]_vars

\* the answer to the list fetch of the onboarding tab arrived while the
\* vault tab was selected
C11_Witness ==
  /\ ev.type = "response" /\ ev.op = "renderOnboarding"
  /\ Visible = {"vault"}

\* no request is made twice in the trace of the invocation tk
NoRepeat(tk) ==
  \A k, l \in Calls(tk) :
    (tk.trace[k].m = tk.trace[l].m /\ tk.trace[k].u = tk.trace[l].u) => k = l

\* C12: no request is retried: an invocation makes each of its requests at
\* most once, a request that failed is the last call of its invocation,
\* which has ended, and the step in which a failure arrives issues no
\* request in any invocation.
C12_NoRetry ==
  /\ [](/\ NoRepeat(ev.task)
        /\ \A i \in Slots :
             /\ NoRepeat(tasks[i])
             /\ \A k \in Calls(tasks[i]) : tasks[i].trace[k].st # "fail"
        /\ \A k \in Calls(ev.task) :
             ev.task.trace[k].st = "fail"
               => k = Len(ev.task.trace) /\ ev.task.pc \in Ended)
  /\ [][ (ev'.type = "response" /\ Failed(ev'.r))
           => /\ ev'.task.pc \in Ended
              /\ \A i \in Slots :
                   tasks'[i] = Idle \/ tasks'[i].trace = tasks[i].trace ]_vars

\* the list refresh of createOwner failed after its POST had succeeded, and
\* the handler ended in its catch block with nothing pending
C12_Witness ==
  /\ ev.type = "response" /\ ev.op = "createOwner" /\ Failed(ev.r)
  /\ Len(ev.task.trace) = 2 /\ ev.task.trace[2].st = "fail"
  /\ ev.task.pc = "caught"
  /\ \A i \in Slots : tasks[i] = Idle

\* C13: a successful answer to a list fetch is rendered as a table with one
\* body row per element of items, in the order of items, and with no body
\* row when items is empty or absent; the handler does not fail.
C13_RowPerItem ==
  [][ \A sl \in Slots :
        (tasks[sl].pc = "list" /\ tasks'[sl].pc # "list" /\ ~Failed(ev'.r))
          => LET t == TabOfOp(tasks[sl].op)
                 items == IF "items" \in DOMAIN ev'.r.body THEN ev'.r.body.items ELSE <<>>
                 shown == dom'[TableOf(t)]
             IN  /\ shown.kind = "table"
                 /\ Len(shown.rows) = Len(items)
                 /\ \A i \in DOMAIN items : RowId(shown.rows[i]) = items[i].id
                 /\ ev'.task.pc \notin {"caught", "rejected"} ]_vars

\* the owners list was answered with two records and shows two rows
C13_Witness ==
  /\ ev.type = "response" /\ ev.op = "renderOwners" /\ ~Failed(ev.r)
  /\ "items" \in DOMAIN ev.r.body /\ Len(ev.r.body.items) = 2
  /\ dom["o_table"].kind = "table" /\ Len(dom["o_table"].rows) = 2

\* C14: in every list that is shown, every column other than created_at
\* (the first) and id (the last) of a record that lacks the field of the
\* column holds the empty string, never the text "undefined".
C14_AbsentFieldsEmpty ==
  \A t \in TabSet :
    dom[TableOf(t)].kind = "table"
      => \A i \in DOMAIN dom[TableOf(t)].rows :
           LET row == dom[TableOf(t)].rows[i]
           IN  \A c \in 2..(Len(row) - 1) : row[c] # "undefined"

\* C15: when the operator sets the status filter to v, the list GET of the
\* renderOnboarding call that the change starts carries status=v, and the
\* filter control shows v when that call is suspended at its fetch (the
\* rest of the call does not write the control).
C15_FilterIsSent ==
  (ev.type = "change" /\ ev.op = "renderOnboarding")
    => /\ ev.task.trace[1].u = "/api/admin/onboarding?status=" \o ev.arg \o "&limit=50"
       /\ dom["ob_status"].value = ev.arg

\* C16: when createOwner, createAsset or vaultUpload completes after its
\* POST has succeeded, the message area of its tab shows the success alert,
\* whatever the answer to the list refresh was; it shows the error alert
\* only when the POST itself failed.
C16_SuccessStaysShown ==
  LET tk == ev.task
  IN  (ev.type = "response" /\ tk.op \in Catching /\ tk.pc \in Ended)
        => IF PostsDone(tk) # {}
           THEN /\ dom[MsgOf(tk.op)].kind = "alert"
                /\ dom[MsgOf(tk.op)].cls = "success"
           ELSE /\ dom[MsgOf(tk.op)].kind = "alert"
                /\ dom[MsgOf(tk.op)].cls = "danger"

\* the invocations that are suspended at the POST of the handler op
InFlight(op) == {i \in Slots : tasks[i].op = op /\ tasks[i].pc = "post"}

\* C17: every click on the button of createOwner, createAsset, vaultUpload
\* (with a file) or setOnboardingStatus starts an invocation that issues its
\* own POST and leaves the invocations that are suspended as they are, also
\* while the POST of an earlier click is in flight; after a click that
\* repeats the click before it, two POSTs with the same payload are in
\* flight.
C17_NoMutualExclusion ==
  [][ (ev'.type = "click" /\ ev'.op \in Submitting
         /\ (ev'.op = "vaultUpload" => ev'.arg = "file"))
        => /\ ev'.task.pc = "post"
           /\ Len(ev'.task.trace) = 1
           /\ ev'.task.trace[1].e = "fetch"
           /\ ev'.task.trace[1].m = "POST"
           /\ ev'.task.trace[1].st = "pending"
           /\ \E i \in Slots :
                /\ tasks[i] = Idle
                /\ tasks'[i] = ev'.task
                /\ \A j \in Slots \ {i} : tasks'[j] = tasks[j]
           /\ InFlight(ev'.op) # {}
                => \E i, j \in Slots :
                     /\ i # j
                     /\ tasks'[i].op = ev'.op /\ tasks'[i].pc = "post"
                     /\ tasks'[j].op = ev'.op /\ tasks'[j].pc = "post"
                     /\ tasks'[i].trace[1].m = "POST"
                     /\ tasks'[j].trace[1].m = "POST"
                     /\ tasks'[i].trace[1].u = tasks'[j].trace[1].u ]_vars

\* Create was clicked twice on the owners form and the two POSTs, with the
\* same payload, are both in flight
C17_Witness ==
  /\ ev.type = "click" /\ ev.op = "createOwner"
  /\ \E i, j \in InFlight("createOwner") :
       /\ i # j
       /\ tasks[i].trace = << Call("POST", OwnersUrl, OwnerForm) >>
       /\ tasks[j].trace = tasks[i].trace

====
